---- MODULE Spec2Model ----
(***************************************************************************)
(* A model of the Car(); in-memory patch system (src/src/patch/           *)
(* carPatcher.ts): marker scanning, plan building, the regex-driven        *)
(* substitution, the vm execution of the patched text and the batch loop,   *)
(* of the answer of POST /patch/batch (src/unnamed/part_000), and of the    *)
(* temporary files of Carmilla.encrypt and Carmilla.decrypt                 *)
(* (src/src/crypto/carmilla.ts).                                           *)
(*                                                                         *)
(* Text is a sequence of characters.  The six characters of the reserved   *)
(* token are one element, "Car();"; every other non-whitespace character   *)
(* is an element that is no part of the token ("x" in documents, "y" and   *)
(* "z" in fragments).  Whitespace is the space and the two line            *)
(* terminators "\n" and "\r", which JavaScript's \s, trim() and the        *)
(* multiline anchors ^ and $ all know.                                     *)
(***************************************************************************)
EXTENDS Integers, Sequences, FiniteSets, TLC

\* ------------------------------------------------------------------ bounds

\* Documents of every content up to MaxDocLen characters are patched with
\* every list of up to MaxPatches fragments, both flags off; documents of
\* up to MaxMarkers marker lines with every list of up to MaxPlanPatches
\* fragments under every setting of the flags.
MaxDocLen == 3
MaxPatches == 2
MaxMarkers == 2
MaxPlanPatches == 1
\* batchProcess is called with up to MaxBatch paths; a looping script is
\* watched every TickMs milliseconds.
MaxBatch == 2
TickMs == 1000

\* generateFakePatches is called with counts up to MaxDecoys.
MaxDecoys == 2

\* Carmilla.encrypt and decrypt make up to MaxFakeCalls fake calls (the
\* code draws 1 to 5).
MaxFakeCalls == 2

\* timeout: 5000 of runInNewContext
VmTimeoutMs == 5000

\* ------------------------------------------------------------- characters

CAR_MARKER == "Car();"

DocChars == {CAR_MARKER, "x", " ", "\n", "\r"}

\* JavaScript's \s (and what trim() strips), within the alphabet.
IsWs(c) == c \in {" ", "\n", "\r"}

\* JavaScript's LineTerminator, where the m flag lets ^ and $ match.
IsLineTerminator(c) == c \in {"\n", "\r"}

\* ------------------------------------------------------- string functions

SubStr(s, a, b) == IF a > b THEN << >> ELSE SubSeq(s, a, b)

\* The length of the longest run of whitespace of s that starts at p.
RECURSIVE WsRun(_, _)
WsRun(s, p) ==
    IF p <= Len(s) /\ IsWs(s[p]) THEN 1 + WsRun(s, p + 1) ELSE 0

\* The length of the longest run of whitespace of s that ends at p.
RECURSIVE WsRunBack(_, _)
WsRunBack(s, p) ==
    IF p >= 1 /\ IsWs(s[p]) THEN 1 + WsRunBack(s, p - 1) ELSE 0

\* String.prototype.trim
Trim(s) ==
    LET a == WsRun(s, 1)
    IN  IF a = Len(s) THEN << >>
        ELSE SubStr(s, a + 1, Len(s) - WsRunBack(s, Len(s)))

\* String.prototype.split(sep) for a one-character separator: the pieces
\* between the separators, an empty string giving one empty piece.
RECURSIVE SplitFrom(_, _, _, _)
SplitFrom(s, sep, p, start) ==
    IF p > Len(s) THEN << SubStr(s, start, Len(s)) >>
    ELSE IF s[p] = sep
         THEN << SubStr(s, start, p - 1) >> \o SplitFrom(s, sep, p + 1, p + 1)
         ELSE SplitFrom(s, sep, p + 1, start)

Split(s, sep) == SplitFrom(s, sep, 1, 1)

\* Array.prototype.join(sep)
RECURSIVE Join(_, _)
Join(parts, sep) ==
    IF Len(parts) = 0 THEN << >>
    ELSE IF Len(parts) = 1 THEN parts[1]
    ELSE parts[1] \o << sep >> \o Join(Tail(parts), sep)

\* ---------------------------------------------------------- the CAR_REGEX
\* /^(\s*)Car\(\);\s*$/gm

\* ^ under the m flag: at the start of the input or after a line terminator.
AtLineStart(s, p) == p = 1 \/ IsLineTerminator(s[p - 1])

\* $ under the m flag: at the end of the input or before a line terminator.
AtLineEnd(s, p) == p = Len(s) + 1 \/ IsLineTerminator(s[p])

\* TrailEnd without the $: the whitespace run ends the match wherever it
\* stops.
TrailEndWithoutAnchor(s, from, n) == from + n

\* The trailing \s*$ is greedy and backtracks: the largest end, from the
\* longest whitespace run down to none, at which $ matches; 0 when none.
RECURSIVE TrailEnd(_, _, _)
TrailEnd(s, from, n) ==
    IF AtLineEnd(s, from + n) THEN from + n
    ELSE IF n = 0 THEN 0
    ELSE TrailEnd(s, from, n - 1)

\* MatchAt without the ^: the token matches wherever it stands.
MatchAtWithoutAnchor(s, p) ==
    IF s[p] = CAR_MARKER
    THEN [ok |-> TRUE, start |-> p, tok |-> p, stop |-> p, indent |-> << >>]
    ELSE [ok |-> FALSE, start |-> p, tok |-> 0, stop |-> 0, indent |-> << >>]

\* One attempt of the regex at position p: (\s*) takes the whole whitespace
\* run (any shorter take is followed by whitespace, not by the token), the
\* token follows, and \s*$ ends the match.  The match is the characters
\* start..stop, the token is at tok, the captured group is indent.
MatchAt(s, p) ==
    LET w == WsRun(s, p)
        t == p + w
        e == IF t <= Len(s) /\ s[t] = CAR_MARKER
             THEN TrailEnd(s, t + 1, WsRun(s, t + 1)) ELSE 0
    IN  IF AtLineStart(s, p) /\ e > 0
        THEN [ok |-> TRUE, start |-> p, tok |-> t, stop |-> e - 1,
              indent |-> SubStr(s, p, t - 1)]
        ELSE [ok |-> FALSE, start |-> p, tok |-> 0, stop |-> 0,
              indent |-> << >>]

\* The g flag: the matches from lastIndex on, leftmost first, each search
\* resuming where the match before it stopped.
RECURSIVE MatchesFrom(_, _)
MatchesFrom(s, lastIndex) ==
    IF lastIndex > Len(s) THEN << >>
    ELSE LET m == MatchAt(s, lastIndex)
         IN  IF m.ok THEN << m >> \o MatchesFrom(s, m.stop + 1)
             ELSE MatchesFrom(s, lastIndex + 1)

CAR_REGEX(s) == MatchesFrom(s, 1)

\* ------------------------------------------------------------ fragments

\* The fragments a caller may supply: the empty string, a one-line
\* statement, and a three-line fragment whose second line is blank
\* (whitespace only) and whose third line brings whitespace of its own.
EmptyFragment == << >>
LineFragment == << "y" >>
BlockFragment == << "y", "\n", " ", "\n", " ", "z" >>

Fragments == {EmptyFragment, LineFragment, BlockFragment}

\* The sequences over S of length at most n.
SeqsUpTo(S, n) == UNION {[1..k -> S] : k \in 0..n}

\* A JavaScript string is truthy when it is not empty.
Truthy(str) == Len(str) > 0

\* ------------------------------------------------- generateFakePatches

\* The values a random draw (randomBytes(n).toString('hex'),
\* Math.floor(Math.random() * 1000)) may give.
RandomHex == {"a1", "b2"}

\* The five template literals, evaluated once per call with the draws
\* h (one value per ${...} of the array literal, in source order).
FakeTemplates(h) ==
    << << "console.log(Fake patch ", h[1], ");" >>,
       << "const fakeVar", h[2], " = ", h[3], ";" >>,
       << "if (Math.random() > 0.5) { console.log(Fake condition); }" >>,
       << "setTimeout(() => {}, ", h[4], ");" >>,
       << "const fakeObj = { id: ", h[5], ", value: Math.random() };" >> >>

NumTemplates == 5
NumDraws == 5

\* GenerateFakePatches with the loop running to i <= count.
GenerateFakePatchesOneMore(count, hex) ==
    { [i \in 1..(count + 1) |-> FakeTemplates(h)[d[i]]] :
        h \in [1..NumDraws -> hex], d \in [1..(count + 1) -> 1..NumTemplates] }

\* Every result a call may return: the templates are instantiated once,
\* then each of the count iterations picks one by index and pushes it when
\* it is truthy.
GenerateFakePatches(count, hex) ==
    { LET fakePatches == FakeTemplates(h)
          picked == [i \in 1..count |-> fakePatches[d[i]]]
      IN  SelectSeq(picked, Truthy) :
        h \in [1..NumDraws -> hex], d \in [1..count -> 1..NumTemplates] }

\* ---------------------------------------------------------- shuffleArray

Swap(arr, i, j) == [arr EXCEPT ![i] = arr[j], ![j] = arr[i]]

\* for (i = length - 1; i > 0; i--) swap(i, j) with j drawn from 0..i
\* (1-based here: i from Len down to 2, j from 1..i).
RECURSIVE ShuffleFrom(_, _)
ShuffleFrom(arr, i) ==
    IF i < 2 THEN {arr}
    ELSE UNION {ShuffleFrom(Swap(arr, i, j), i - 1) : j \in 1..i}

ShuffleArray(array) == ShuffleFrom(array, Len(array))

\* ------------------------------------------------------- the substitution

\* patch.split('\n').map(line => line.trim() ? indent + line : line).join('\n')
IndentPatch(patch, indent) ==
    LET lines == Split(patch, "\n")
    IN  Join([i \in 1..Len(lines) |->
                 IF Truthy(Trim(lines[i])) THEN indent \o lines[i]
                 ELSE lines[i]], "\n")

\* The replace callback on one match, patchesApplied being the closure's
\* counter: whether a patch is used, and the text the callback returns.
UsesPatch(patches, patchesApplied) ==
    /\ patchesApplied < Len(patches)
    /\ Truthy(patches[patchesApplied + 1])

\* String.prototype.replace(CAR_REGEX, callback): the text between the
\* matches is kept, each match is replaced by what the callback returns.
\* acc carries the output so far, the counter and the log of the calls.
RECURSIVE ReplaceFrom(_, _, _, _, _, _)
ReplaceFrom(content, ms, k, pos, patches, acc) ==
    IF k > Len(ms)
    THEN [acc EXCEPT !.text = @ \o SubStr(content, pos, Len(content))]
    ELSE LET m == ms[k]
             use == UsesPatch(patches, acc.applied)
             ret == IF use THEN IndentPatch(patches[acc.applied + 1], m.indent)
                    ELSE SubStr(content, m.start, m.stop)
             call == [match |-> m, replaced |-> use,
                      patch |-> IF use THEN acc.applied + 1 ELSE 0,
                      returned |-> ret]
         IN  ReplaceFrom(content, ms, k + 1, m.stop + 1, patches,
               [text |-> acc.text \o SubStr(content, pos, m.start - 1) \o ret,
                applied |-> IF use THEN acc.applied + 1 ELSE acc.applied,
                calls |-> Append(acc.calls, call)])

ApplyPatches(content, patches) ==
    ReplaceFrom(content, CAR_REGEX(content), 1, 1, patches,
                [text |-> << >>, applied |-> 0, calls |-> << >>])

\* ------------------------------------------------------------ loadAndPatch

Absent == "(absent)"

ErrNoMarkers == << "No Car(); markers found in file" >>
ErrLoad(message) == << "Failed to load file: ", message >>

PatchResult(originalFile, patchedFile, patchesApplied, errors) ==
    [originalFile |-> originalFile, patchedFile |-> patchedFile,
     patchesApplied |-> patchesApplied, errors |-> errors,
     executionResult |-> Absent]

\* What one run of loadAndPatch computes: its PatchResult and, for the
\* properties, the locals markerCount, fakePatches, patches (the plan the
\* callback reads) and the log of the callback's calls.
PatchRun(res, markerCount, fakePatches, patches, calls) ==
    [result |-> res, markerCount |-> markerCount, fakePatches |-> fakePatches,
     patches |-> patches, calls |-> calls]

\* const fakePatches = addFakePatches ? generateFakePatches(markerCount) : none
FakePatchesFor(cfg, markerCount, hex) ==
    IF cfg.addFakePatches THEN GenerateFakePatches(markerCount, hex)
    ELSE {<< >>}

\* patches = randomizeOrder ? shuffleArray(patches) : patches
PlansFor(cfg, combined) ==
    IF cfg.randomizeOrder THEN ShuffleArray(combined) ELSE {combined}

\* LoadFailure with the read error swallowed: the pipeline goes on with
\* no content and ends at the scan.
LoadFailureAsEmptyDocument(f) ==
    PatchRun(PatchResult(<< >>, << >>, 0, << ErrNoMarkers >>),
             0, << >>, << >>, << >>)

\* The catch of loadAndPatch, which readFile's error reaches before any
\* local is set.
LoadFailure(f) ==
    PatchRun(PatchResult(<< >>, << >>, 0, << ErrLoad(f.error) >>),
             0, << >>, << >>, << >>)

\* Every run loadAndPatch may make on a file under a configuration, the
\* random draws ranging over hex.
LoadAndPatchRuns(f, cfg, hex) ==
    IF ~f.readable
    THEN {LoadFailure(f)}
    ELSE LET originalContent == f.content
             markerCount == Len(CAR_REGEX(originalContent))
         IN  IF markerCount = 0
             THEN {PatchRun(PatchResult(originalContent, originalContent, 0,
                                        << ErrNoMarkers >>),
                            0, << >>, << >>, << >>)}
             ELSE UNION {
                    { LET r == ApplyPatches(originalContent, plan)
                      IN  PatchRun(PatchResult(originalContent, r.text,
                                               r.applied, << >>),
                                   markerCount, fakes, plan, r.calls) :
                        plan \in PlansFor(cfg, cfg.patches \o fakes) } :
                    fakes \in FakePatchesFor(cfg, markerCount, hex) }

\* ------------------------------------------------------------- scanMarkers

\* lines.forEach((line, index) => { if (line.trim() === "Car();")
\*                                   locations.push(index + 1) })
RECURSIVE ScanLines(_, _)
ScanLines(lines, index) ==
    IF index > Len(lines) THEN << >>
    ELSE (IF Trim(lines[index]) = << CAR_MARKER >> THEN << index >> ELSE << >>)
         \o ScanLines(lines, index + 1)

ErrScan(message) == << "Scan failed: ", message >>

\* The outcome of scanMarkers: a returned {count, locations}, or the thrown
\* Error when the file cannot be read.
ScanMarkersOf(f) ==
    IF ~f.readable
    THEN [state |-> "thrown", count |-> 0, locations |-> << >>,
          error |-> ErrScan(f.error)]
    ELSE LET locations == ScanLines(Split(f.content, "\n"), 1)
         IN  [state |-> "returned", count |-> Len(locations),
              locations |-> locations, error |-> << >>]

\* ------------------------------------------- executePatched's context object

\* The names the object literal of executePatched binds before ...context.
DefaultNames == {"console", "setTimeout", "setInterval", "clearTimeout",
                 "clearInterval", "Buffer", "process"}

\* A handle: whose object it is, the global it is or stands for, and the
\* members through which it acts on the host process.
Handle(owner, name, members) ==
    [owner |-> owner, name |-> name, members |-> members]

\* console, setTimeout, ..., Buffer are the host's own objects; process is
\* an object literal of the patcher's whose members env, cwd and exit are
\* the host's process.env, process.cwd and process.exit.
DefaultHandle(name) ==
    IF name = "process"
    THEN Handle("patcher", "process", {"env", "cwd", "exit"})
    ELSE Handle("host", name, {})

\* The host's process object itself, which the object literal does not bind.
HostProcess == Handle("host", "process", {"env", "cwd", "exit", "kill", "binding"})

\* A handle a caller passes in context; it has no member of the host's.
CallerHandle(name) == Handle("caller", name, {})

Context(names) == [n \in names |-> CallerHandle(n)]

\* const sandbox = { console, ..., process: {...}, ...context }: a name of
\* context set after a default of the same name replaces it.
Sandbox(ctx) ==
    [n \in DefaultNames \cup DOMAIN ctx |->
        IF n \in DOMAIN ctx THEN ctx[n] ELSE DefaultHandle(n)]

\* No context object has been made yet.
NoSandbox == Context({})

\* ------------------------------------------------------------------ inputs

Docs == SeqsUpTo(DocChars, MaxDocLen)

\* n lines, each the marker alone.
MarkerDoc(n) == Join([i \in 1..n |-> << CAR_MARKER >>], "\n")

\* What a file's patched text does when it is evaluated: it writes a line
\* with console.log, registers timers through the vm context's setTimeout
\* and setInterval (the callback of an interval writes a line with
\* console.log as well), sets properties of the objects some names of its
\* global scope are bound to, and ends its synchronous run.
Program(timers, ending) == [timers |-> timers, ending |-> ending, writes |-> {}]
ProgValue == Program({}, "return")
ProgThrow == Program({}, "throw")
ProgLoop == Program({}, "loop")
ProgIntervalLoop == Program({"interval"}, "loop")
ProgTimerThrows == Program({"timeoutThrows"}, "return")
ProgExit == Program({}, "exit")
\* this.constructor.constructor("return process")().exit(): the context
\* object is an object of the host, so its constructor's constructor is the
\* host's Function, which evaluates its body among the host's globals.
ProgEscape == Program({}, "escape")
\* setInterval(() => console.log("tick"), 0), then a value.
ProgIntervalReturn == Program({"interval"}, "return")
\* console.log = ..., a property set on the object console is bound to.
ProgSetsConsole == [Program({}, "return") EXCEPT !.writes = {"console"}]

\* The names of its global scope a program reads.
Uses(program) ==
    {"console"}
    \cup {"setInterval" : k \in program.timers \cap {"interval"}}
    \cup {"setTimeout" : k \in program.timers \cap {"timeoutThrows"}}
    \cup (IF program.ending = "exit" THEN {"process"} ELSE {})

File(content, program) ==
    [readable |-> TRUE, content |-> content, error |-> "", program |-> program]
ReadableFile(content) == File(content, ProgValue)
MissingFile ==
    [readable |-> FALSE, content |-> << >>,
     error |-> "ENOENT: no such file or directory", program |-> ProgValue]

PatchConfig(patches, randomizeOrder, addFakePatches) ==
    [patches |-> patches, randomizeOrder |-> randomizeOrder,
     addFakePatches |-> addFakePatches]

\* The calls the model makes: a file, a configuration, and the range of the
\* random draws.  Where decoys meet every shuffle the random values are
\* one, since where a fragment lands does not depend on them.
DocInputs ==
    { [file |-> f, config |-> PatchConfig(ps, FALSE, FALSE), hex |-> RandomHex] :
        f \in {ReadableFile(d) : d \in Docs} \cup {MissingFile},
        ps \in SeqsUpTo(Fragments, MaxPatches) }

PlanInputs ==
    { [file |-> ReadableFile(MarkerDoc(n)), config |-> PatchConfig(ps, ro, fk),
       hex |-> {"a1"}] :
        n \in 0..MaxMarkers, ps \in SeqsUpTo(Fragments, MaxPlanPatches),
        ro \in BOOLEAN, fk \in BOOLEAN }

\* The files of the runs that execute: one that cannot be read, one with
\* no marker, and one per program.
Paths == {"missing.ts", "plain.ts", "value.ts", "throw.ts", "loop.ts",
          "interval.ts", "timer.ts", "exit.ts", "escape.ts", "later.ts",
          "marks.ts"}

FileSystem(path) ==
    CASE path = "missing.ts" -> MissingFile
      [] path = "plain.ts" -> File(<< "x", "\n", "x" >>, ProgValue)
      [] path = "value.ts" -> File(<< "x", "\n", CAR_MARKER >>, ProgValue)
      [] path = "throw.ts" -> File(<< CAR_MARKER, "\n", "x" >>, ProgThrow)
      [] path = "loop.ts" -> File(<< CAR_MARKER >>, ProgLoop)
      [] path = "interval.ts" -> File(<< " ", CAR_MARKER >>, ProgIntervalLoop)
      [] path = "timer.ts" -> File(<< CAR_MARKER, "\n", CAR_MARKER >>, ProgTimerThrows)
      [] path = "exit.ts" -> File(<< "x", "\n", " ", CAR_MARKER >>, ProgExit)
      [] path = "escape.ts" -> File(<< CAR_MARKER, " " >>, ProgEscape)
      [] path = "later.ts" -> File(<< CAR_MARKER, "\n" >>, ProgIntervalReturn)
      [] path = "marks.ts" -> File(<< " ", CAR_MARKER, " " >>, ProgSetsConsole)

\* The context a caller passes: none, one that sets process, one that adds
\* a name of its own.
Contexts == {Context({}), Context({"process"}), Context({"emit"})}

\* The calls of the runs that execute: runWithPatches on one path or
\* batchProcess on a list of up to MaxBatch paths, with no fragment or one,
\* the context, and the bound the caller wants the execution to keep.
RunInputs ==
    { [entry |-> e, filePaths |-> fps, config |-> PatchConfig(ps, FALSE, FALSE),
       context |-> ctx, timeoutMs |-> t] :
        e \in {"runWithPatches", "batchProcess"},
        fps \in SeqsUpTo(Paths, MaxBatch),
        ps \in {<< >>, << LineFragment >>},
        ctx \in Contexts,
        t \in {50, 5000} }

\* ------------------------------------------------------------------- state

VARIABLES
    file,         \* the document at filePath: readable or not, its content
    config,       \* the PatchConfig of the call
    hexRange,     \* the values a random draw may give
    pc,           \* where the caller or the pipeline stands
    scan,         \* the last outcome of scanMarkers ("none" before any)
    result,       \* the PatchResult of the pipeline at hand
    markerCount,  \* loadAndPatch's markerCount
    fakePatches,  \* the decoys loadAndPatch added
    patches,      \* the plan the replace callback read
    calls,        \* the replace callback's calls, in order
    entry,        \* the entry point called: runWithPatches or batchProcess
    filePaths,    \* the paths it was called with
    timeoutMs,    \* the execution bound the caller wants
    idx,          \* batchProcess's position in filePaths
    results,      \* the Map of batchProcess, or runWithPatches's outcome
    elapsed,      \* milliseconds the running script has run
    durations,    \* how long each stored outcome's execution took
    timers,       \* the timers registered with the host and not cleared
    host,         \* "running", "exited" (process.exit) or "crashed"
    context,      \* the context object the caller passed
    sandbox,      \* the context object executePatched made last
    reached,      \* the handles the evaluated texts have got hold of
    stages,       \* the stages the pipeline at hand has been through
    output,       \* the lines written to the host's console, by their writer
    marks,        \* the properties evaluated texts have set on handles
    seen,         \* who has read a property that whom has set
    evals,        \* the executePatched calls so far, by their identity
    response,     \* what POST /patch/batch has answered
    decoyCount,   \* the count generateFakePatches is called with
    decoys,       \* what its calls so far returned, in order
    cryptOp,      \* "encrypt" or "decrypt", the call of Carmilla at hand
    cryptPc,      \* where that call stands
    fakeCalls,    \* its const fakeCalls
    fakeIndex,    \* the i of its loop of fake calls
    fakeTemp,     \* the fakeTemp of the iteration at hand
    inputFile,    \* its const inputFile
    outputFile,   \* its const outputFile
    tmpDir,       \* the files /tmp holds
    created       \* the files the call has created

patchVars == << file, config, hexRange, pc, scan, result, markerCount,
                fakePatches, patches, calls >>
runVars == << entry, filePaths, timeoutMs, idx, results, elapsed, durations,
              timers, host >>
capVars == << context, sandbox, reached, stages >>
ioVars == << output, marks, seen, evals, response >>
decoyVars == << decoyCount, decoys >>
cryptVars == << cryptOp, cryptPc, fakeCalls, fakeIndex, fakeTemp, inputFile,
               outputFile, tmpDir, created >>
sideVars == << decoyVars, cryptVars >>
vars == << patchVars, runVars, capVars, ioVars, sideVars >>

NoScan == [state |-> "none", count |-> 0, locations |-> << >>, error |-> << >>]

NoPatchRun ==
    /\ scan = NoScan
    /\ result = PatchResult(<< >>, << >>, 0, << >>)
    /\ markerCount = 0
    /\ fakePatches = << >>
    /\ patches = << >>
    /\ calls = << >>

NoResponse == [status |-> 0, results |-> << >>, total |-> 0, successful |-> 0,
               failed |-> 0]

NoExchange ==
    /\ output = << >>
    /\ marks = {}
    /\ seen = {}
    /\ evals = << >>
    /\ response = NoResponse

\* No file of /tmp is named yet.
NoFile == [kind |-> "none", n |-> 0]

NoDecoys ==
    /\ decoyCount = 0
    /\ decoys = << >>

NoCrypt ==
    /\ cryptOp = "none"
    /\ cryptPc = "idle"
    /\ fakeCalls = 0
    /\ fakeIndex = 0
    /\ fakeTemp = NoFile
    /\ inputFile = NoFile
    /\ outputFile = NoFile
    /\ tmpDir = {}
    /\ created = {}

NoExecution ==
    /\ idx = 1
    /\ results = << >>
    /\ elapsed = 0
    /\ durations = << >>
    /\ timers = {}
    /\ host = "running"
    /\ sandbox = NoSandbox
    /\ reached = {}
    /\ stages = << >>
    /\ NoExchange

\* ---------------------------------------- scanMarkers and loadAndPatch alone

InitOn(inputs) ==
    /\ \E in \in inputs :
         /\ file = in.file
         /\ config = in.config
         /\ hexRange = in.hex
    /\ pc = "ready"
    /\ NoPatchRun
    /\ entry = "loadAndPatch"
    /\ filePaths = << >>
    /\ timeoutMs = VmTimeoutMs
    /\ context = Context({})
    /\ NoExecution
    /\ NoDecoys
    /\ NoCrypt

InitPatch == InitOn(DocInputs \cup PlanInputs)

\* scanMarkers(filePath): a caller may scan at any time, any number of times.
ScanMarkers ==
    /\ scan' = ScanMarkersOf(file)
    /\ UNCHANGED << file, config, hexRange, pc, result, markerCount,
                    fakePatches, patches, calls >>
    /\ UNCHANGED << runVars, capVars, ioVars, sideVars >>

\* loadAndPatch(filePath, config), after a scan as in
\* examples/basic-usage.ts.
LoadAndPatch ==
    /\ pc = "ready"
    /\ scan.state # "none"
    /\ \E run \in LoadAndPatchRuns(file, config, hexRange) :
         /\ result' = run.result
         /\ markerCount' = run.markerCount
         /\ fakePatches' = run.fakePatches
         /\ patches' = run.patches
         /\ calls' = run.calls
    /\ pc' = "patched"
    /\ UNCHANGED << file, config, hexRange, scan >>
    /\ UNCHANGED << runVars, capVars, ioVars, sideVars >>

NextPatch == ScanMarkers \/ LoadAndPatch

SpecPatch == InitPatch /\ [][NextPatch]_vars

\* ------------------------------------------ runWithPatches and batchProcess

\* `Execution error: ${message}`, the message being a text in parts.
ErrExecution(message) == << "Execution error: " >> \o message
ErrFailed(message) == << "Execution failed: ", message >>
ThrownMessage == "boom"
TimedOutMessage == "Script execution timed out after 5000ms"

\* MapSet on a Map whose entries all hold one object, which every set
\* overwrites.
MapSetOneObject(map, key, value) ==
    LET all == [i \in 1..Len(map) |-> [key |-> map[i].key, value |-> value]]
    IN  IF \E i \in 1..Len(map) : map[i].key = key THEN all
        ELSE Append(all, [key |-> key, value |-> value])

\* Map.prototype.set on a Map kept as its entries in insertion order.
MapSet(map, key, value) ==
    IF \E i \in 1..Len(map) : map[i].key = key
    THEN [i \in 1..Len(map) |->
             IF map[i].key = key THEN [key |-> key, value |-> value] ELSE map[i]]
    ELSE Append(map, [key |-> key, value |-> value])

InitRun ==
    /\ \E in \in RunInputs :
         /\ entry = in.entry
         /\ filePaths = in.filePaths
         /\ config = in.config
         /\ timeoutMs = in.timeoutMs
         /\ context = in.context
         /\ entry = "runWithPatches" => Len(filePaths) = 1
    /\ file = MissingFile
    /\ hexRange = RandomHex
    /\ pc = "call"
    /\ NoPatchRun
    /\ NoExecution
    /\ NoDecoys
    /\ NoCrypt

\* The entry point is called: batchProcess makes its Map and starts its
\* loop, which an empty list ends at once.
Enter ==
    /\ pc = "call"
    /\ pc' = IF Len(filePaths) = 0 THEN "returned" ELSE "load"
    /\ UNCHANGED << file, config, hexRange, scan, result, markerCount,
                    fakePatches, patches, calls >>
    /\ UNCHANGED << runVars, capVars, ioVars, sideVars >>

\* runWithPatches returns an outcome, from the return statement that makes
\* the pipeline, having passed its stages, end as terminal: to its caller,
\* or to batchProcess, which sets it in the Map and goes on to the next
\* path.  (batchProcess's catch is dead code: runWithPatches catches all
\* that its callees throw.)
Return(outcome, ms, passed, terminal) ==
    /\ results' = MapSet(results, filePaths[idx], outcome)
    /\ durations' = Append(durations, ms)
    /\ result' = outcome
    /\ idx' = idx + 1
    /\ pc' = IF idx = Len(filePaths) THEN "returned" ELSE "load"
    /\ stages' = Append(passed, terminal)

\* The stages loadAndPatch goes through on a file: readFile, the match that
\* counts the markers (and returns when there is none), the plan, the
\* replace.
StagesOfLoad(f, count) ==
    IF ~f.readable THEN << "Loaded" >>
    ELSE IF count = 0 THEN << "Loaded", "Scanned" >>
    ELSE << "Loaded", "Scanned", "Planned", "Patched" >>

\* The test of runWithPatches's early return on a PatchResult.
HasErrorsMoreThanOne(patchResult) == Len(patchResult.errors) > 1

\* patchResult.errors && patchResult.errors.length > 0
HasErrors(patchResult) == Len(patchResult.errors) > 0

\* runWithPatches, first half: loadAndPatch, and the early return when it
\* reports errors.
RunLoad ==
    /\ pc = "load"
    /\ host = "running"
    /\ file' = FileSystem(filePaths[idx])
    /\ \E run \in LoadAndPatchRuns(file', config, hexRange) :
         /\ markerCount' = run.markerCount
         /\ fakePatches' = run.fakePatches
         /\ patches' = run.patches
         /\ calls' = run.calls
         /\ IF HasErrors(run.result)
            THEN Return(run.result, 0,
                        StagesOfLoad(file', run.markerCount), "Failed")
            ELSE /\ result' = run.result
                 /\ pc' = "exec"
                 /\ stages' = StagesOfLoad(file', run.markerCount)
                 /\ UNCHANGED << idx, results, durations >>
    /\ elapsed' = 0
    /\ UNCHANGED << config, hexRange, scan, entry, filePaths, timeoutMs,
                    timers, host, context, sandbox, reached >>
    /\ UNCHANGED << ioVars, sideVars >>

\* The timers the script registers before its run ends.
Registered == {[owner |-> idx, kind |-> k, fired |-> FALSE] : k \in file.program.timers}

\* executePatched makes its context object, and the script reads the names
\* it uses from it.
MakeSandbox ==
    /\ sandbox' = Sandbox(context)
    /\ reached' = reached \cup {Sandbox(context)[n] : n \in Uses(file.program)}

\* The objects the script's names are bound to.
HandlesOf(names) == {Sandbox(context)[n] : n \in names}

\* runWithPatches calls executePatched and the script starts: it writes its
\* line to the console, reads the properties of the objects it uses, those
\* set before it among them, and sets its own.  The objects are those of
\* the host and of the caller's context, the same for every call.
RunScript ==
    /\ evals' = Append(evals, idx)
    /\ output' = Append(output, idx)
    /\ seen' = seen \cup {[reader |-> idx, writer |-> m.by] :
                             m \in {k \in marks :
                                       k.handle \in HandlesOf(Uses(file.program))}}
    /\ marks' = marks \cup {[handle |-> h, by |-> idx] :
                               h \in HandlesOf(file.program.writes)}
    /\ UNCHANGED response

\* The script calls process.exit and the process of its context object has
\* the host's exit.
ExitsHost == "exit" \in Sandbox(context)["process"].members

\* The message of what the script throws: its own, or the TypeError of
\* calling the exit a caller's process does not have.
NotAFunctionMessage == "process.exit is not a function"
MessageThrown == IF file.program.ending = "exit" THEN NotAFunctionMessage
                 ELSE ThrownMessage

\* executePatched: the script runs to its last statement and its value is
\* the execution result.
ExecReturn ==
    /\ pc = "exec"
    /\ file.program.ending = "return"
    /\ MakeSandbox
    /\ RunScript
    /\ timers' = timers \cup Registered
    /\ Return([result EXCEPT !.executionResult = "value"], elapsed,
              stages, "Executed")
    /\ UNCHANGED << file, config, hexRange, scan, markerCount, fakePatches,
                    patches, calls, entry, filePaths, timeoutMs, elapsed, host,
                    context >>
    /\ UNCHANGED sideVars

\* The script throws: executePatched's catch rethrows "Execution failed",
\* runWithPatches's catch records "Execution error".
ExecThrow ==
    /\ pc = "exec"
    /\ \/ file.program.ending = "throw"
       \/ file.program.ending = "exit" /\ ~ExitsHost
    /\ MakeSandbox
    /\ RunScript
    /\ timers' = timers \cup Registered
    /\ Return([result EXCEPT !.errors =
                  @ \o << ErrExecution(ErrFailed(MessageThrown)) >>], elapsed,
              stages, "Failed")
    /\ UNCHANGED << file, config, hexRange, scan, markerCount, fakePatches,
                    patches, calls, entry, filePaths, timeoutMs, elapsed, host,
                    context >>
    /\ UNCHANGED sideVars

\* The script calls the exit of the process of its context object, which
\* is the host's.
ExecExit ==
    /\ pc = "exec"
    /\ file.program.ending = "exit"
    /\ ExitsHost
    /\ MakeSandbox
    /\ RunScript
    /\ timers' = {}
    /\ host' = "exited"
    /\ pc' = "dead"
    /\ UNCHANGED << file, config, hexRange, scan, result, markerCount,
                    fakePatches, patches, calls, entry, filePaths, timeoutMs,
                    idx, results, elapsed, durations, context, stages >>
    /\ UNCHANGED sideVars

\* The script gets the host's process through the constructor of the
\* context object's constructor, whatever the context object binds, and
\* calls its exit.
ExecEscape ==
    /\ pc = "exec"
    /\ file.program.ending = "escape"
    /\ sandbox' = Sandbox(context)
    /\ reached' = reached \cup HandlesOf(Uses(file.program)) \cup {HostProcess}
    /\ RunScript
    /\ timers' = {}
    /\ host' = "exited"
    /\ pc' = "dead"
    /\ UNCHANGED << file, config, hexRange, scan, result, markerCount,
                    fakePatches, patches, calls, entry, filePaths, timeoutMs,
                    idx, results, elapsed, durations, context, stages >>
    /\ UNCHANGED sideVars

\* The script enters a loop it never leaves.
ExecLoop ==
    /\ pc = "exec"
    /\ file.program.ending = "loop"
    /\ MakeSandbox
    /\ RunScript
    /\ timers' = timers \cup Registered
    /\ pc' = "running"
    /\ UNCHANGED << file, config, hexRange, scan, result, markerCount,
                    fakePatches, patches, calls, entry, filePaths, timeoutMs,
                    idx, results, elapsed, durations, host, context, stages >>
    /\ UNCHANGED sideVars

\* Time passes while the script loops; the host's thread is the script's.
Tick ==
    /\ pc = "running"
    /\ elapsed < VmTimeoutMs
    /\ elapsed' = elapsed + TickMs
    /\ UNCHANGED << patchVars, entry, filePaths, timeoutMs, idx, results,
                    durations, timers, host, capVars >>
    /\ UNCHANGED << ioVars, sideVars >>

\* runInNewContext's timeout of 5000 ms stops the script with an error.
ExecTimeout ==
    /\ pc = "running"
    /\ elapsed >= VmTimeoutMs
    /\ Return([result EXCEPT !.errors =
                  @ \o << ErrExecution(ErrFailed(TimedOutMessage)) >>], elapsed,
              stages, "Failed")
    /\ UNCHANGED << file, config, hexRange, scan, markerCount, fakePatches,
                    patches, calls, entry, filePaths, timeoutMs, elapsed,
                    timers, host, context, sandbox, reached >>
    /\ UNCHANGED << ioVars, sideVars >>

\* The host's event loop has the thread (an await on readFile, or the entry
\* point has returned) and runs a callback the script gave to setInterval,
\* which writes its line to the console.
IntervalFires ==
    /\ host = "running"
    /\ pc \in {"load", "returned"}
    /\ \E t \in timers :
         /\ t.kind = "interval"
         /\ ~t.fired
         /\ timers' = (timers \ {t}) \cup {[t EXCEPT !.fired = TRUE]}
         /\ output' = Append(output, t.owner)
    /\ UNCHANGED << marks, seen, evals, response >>
    /\ UNCHANGED << patchVars, entry, filePaths, timeoutMs, idx, results,
                    elapsed, durations, host, capVars >>
    /\ UNCHANGED sideVars

\* The event loop runs a callback the script gave to setTimeout, and the
\* callback throws: no frame of the patcher is on the stack, so the error
\* is the host's uncaught exception.
TimerThrows ==
    /\ host = "running"
    /\ pc \in {"load", "returned"}
    /\ \E t \in timers :
         /\ t.kind = "timeoutThrows"
         /\ timers' = timers \ {t}
    /\ host' = "crashed"
    /\ pc' = "dead"
    /\ UNCHANGED << file, config, hexRange, scan, result, markerCount,
                    fakePatches, patches, calls, entry, filePaths, timeoutMs,
                    idx, results, elapsed, durations, capVars >>
    /\ UNCHANGED << ioVars, sideVars >>

\* The values of a Map's entries, in insertion order.
Values(map) == [i \in 1..Len(map) |-> map[i].value]

\* batchResults.forEach((value, key) => { results[key] = value; }), the
\* object kept as its properties in creation order.
RECURSIVE ObjectFrom(_, _)
ObjectFrom(map, i) ==
    IF i = 0 THEN << >>
    ELSE MapSet(ObjectFrom(map, i - 1), map[i].key, map[i].value)

\* POST /patch/batch (src/unnamed/part_000), when the await on the
\* batchProcess its handler called with the request's filePaths ends: it
\* answers 200 with the results and the summary.  (The request of the model
\* has filePaths and config, so that the 400 is not answered, and
\* batchProcess does not throw, so that neither is the 500.)
PatchBatchResponds ==
    /\ entry = "batchProcess"
    /\ pc = "returned"
    /\ host = "running"
    /\ response = NoResponse
    /\ response' =
         [status |-> 200,
          results |-> ObjectFrom(results, Len(results)),
          total |-> Len(filePaths),
          successful |-> Len(SelectSeq(Values(results),
                                       LAMBDA r : Len(r.errors) = 0)),
          failed |-> Len(SelectSeq(Values(results),
                                   LAMBDA r : Len(r.errors) > 0))]
    /\ UNCHANGED << patchVars, runVars, capVars, output, marks, seen, evals >>
    /\ UNCHANGED sideVars

NextRun ==
    \/ Enter
    \/ RunLoad
    \/ ExecReturn
    \/ ExecThrow
    \/ ExecExit
    \/ ExecEscape
    \/ ExecLoop
    \/ Tick
    \/ ExecTimeout
    \/ IntervalFires
    \/ TimerThrows
    \/ PatchBatchResponds

SpecRun == InitRun /\ [][NextRun]_vars

\* -------------------------------------------- generateFakePatches, twice

\* The random values the call-th call draws: the draws of one call are
\* taken never to give a value a draw of another call gives.  The draws of
\* the first call range over two values, those of the second give one.
FreshHex(call) == IF call = 1 THEN RandomHex ELSE {"c3"}

InitDecoys ==
    /\ file = MissingFile
    /\ config = PatchConfig(<< >>, FALSE, TRUE)
    /\ hexRange = RandomHex
    /\ pc = "decoys"
    /\ NoPatchRun
    /\ entry = "generateFakePatches"
    /\ filePaths = << >>
    /\ timeoutMs = VmTimeoutMs
    /\ context = Context({})
    /\ NoExecution
    /\ decoyCount \in 1..MaxDecoys
    /\ decoys = << >>
    /\ NoCrypt

\* generateFakePatches(decoyCount), as one more loadAndPatch with
\* addFakePatches on calls it for a document of decoyCount markers.
GenerateFakePatchesCall ==
    /\ pc = "decoys"
    /\ Len(decoys) < 2
    /\ \E r \in GenerateFakePatches(decoyCount, FreshHex(Len(decoys) + 1)) :
         decoys' = Append(decoys, r)
    /\ UNCHANGED << patchVars, runVars, capVars, ioVars, decoyCount, cryptVars >>

NextDecoys == GenerateFakePatchesCall

SpecDecoys == InitDecoys /\ [][NextDecoys]_vars

\* ------------------------------------- Carmilla.encrypt and Carmilla.decrypt
\* (src/src/crypto/carmilla.ts)

\* A file of /tmp: `/tmp/carmilla_${randomBytes(8)}.tmp` and the output
\* names, two draws never giving one name.
TmpFile(kind, n) == [kind |-> kind, n |-> n]

\* Whether execSync returns (TRUE) or throws (FALSE).  openssl ends with an
\* error when its input or passphrase is bad; the fake call of decrypt
\* decrypts random bytes, which are no "Salted__" input, and always fails.
ExecSyncReturns(op, fake) == IF fake /\ op = "decrypt" THEN {FALSE} ELSE BOOLEAN

\* cleanupTempFile: unlink, its error ignored.  The unlink of a file the
\* call has written succeeds.
CleanupTempFile(dir, f) == dir \ {f}

InitCrypt ==
    /\ file = MissingFile
    /\ config = PatchConfig(<< >>, FALSE, FALSE)
    /\ hexRange = RandomHex
    /\ pc = "crypt"
    /\ NoPatchRun
    /\ entry = "Carmilla"
    /\ filePaths = << >>
    /\ timeoutMs = VmTimeoutMs
    /\ context = Context({})
    /\ NoExecution
    /\ NoDecoys
    /\ cryptOp \in {"encrypt", "decrypt"}
    /\ cryptPc = "fake"
    /\ fakeCalls \in 1..MaxFakeCalls
    /\ fakeIndex = 0
    /\ fakeTemp = NoFile
    /\ inputFile = NoFile
    /\ outputFile = NoFile
    /\ tmpDir = {}
    /\ created = {}

nonCryptVars == << patchVars, runVars, capVars, ioVars, decoyVars >>

\* const fakeTemp = await this.createTempFile(fakeData): writeFile writes
\* the file, or throws into the catch that ignores it.
CreateFakeTemp ==
    /\ cryptPc = "fake"
    /\ fakeIndex < fakeCalls
    /\ \E written \in BOOLEAN :
         IF written
         THEN /\ fakeTemp' = TmpFile("fake", fakeIndex)
              /\ tmpDir' = tmpDir \cup {fakeTemp'}
              /\ created' = created \cup {fakeTemp'}
              /\ cryptPc' = "fakeExec"
              /\ UNCHANGED fakeIndex
         ELSE /\ fakeIndex' = fakeIndex + 1
              /\ UNCHANGED << fakeTemp, tmpDir, created, cryptPc >>
    /\ UNCHANGED << cryptOp, fakeCalls, inputFile, outputFile >>
    /\ UNCHANGED nonCryptVars

\* execSync of the fake openssl call: when it throws, the catch ignores
\* the error and the loop goes on, past the cleanup.
ExecFake ==
    /\ cryptPc = "fakeExec"
    /\ \E returns \in ExecSyncReturns(cryptOp, TRUE) :
         IF returns
         THEN cryptPc' = "fakeCleanup" /\ UNCHANGED fakeIndex
         ELSE cryptPc' = "fake" /\ fakeIndex' = fakeIndex + 1
    /\ UNCHANGED << cryptOp, fakeCalls, fakeTemp, inputFile, outputFile,
                    tmpDir, created >>
    /\ UNCHANGED nonCryptVars

\* await this.cleanupTempFile(fakeTemp), the last statement of the try.
CleanupFake ==
    /\ cryptPc = "fakeCleanup"
    /\ tmpDir' = CleanupTempFile(tmpDir, fakeTemp)
    /\ fakeIndex' = fakeIndex + 1
    /\ cryptPc' = "fake"
    /\ UNCHANGED << cryptOp, fakeCalls, fakeTemp, inputFile, outputFile,
                    created >>
    /\ UNCHANGED nonCryptVars

\* The loop is over: const inputFile = await this.createTempFile(data) and
\* the name of outputFile; a failing writeFile ends in the catch that
\* throws "Encryption failed" or "Decryption failed".
CreateInput ==
    /\ cryptPc = "fake"
    /\ fakeIndex = fakeCalls
    /\ \E written \in BOOLEAN :
         IF written
         THEN /\ inputFile' = TmpFile("in", 0)
              /\ outputFile' = TmpFile("out", 0)
              /\ tmpDir' = tmpDir \cup {inputFile'}
              /\ created' = created \cup {inputFile'}
              /\ cryptPc' = "exec"
         ELSE /\ cryptPc' = "thrown"
              /\ UNCHANGED << inputFile, outputFile, tmpDir, created >>
    /\ UNCHANGED << cryptOp, fakeCalls, fakeIndex, fakeTemp >>
    /\ UNCHANGED nonCryptVars

\* execSync of the real openssl call, which writes outputFile; when it
\* throws (a wrong passphrase, say), openssl may have made the file
\* already, and the catch throws.
ExecReal ==
    /\ cryptPc = "exec"
    /\ \E returns \in ExecSyncReturns(cryptOp, FALSE), made \in BOOLEAN :
         /\ returns => made
         /\ tmpDir' = IF made THEN tmpDir \cup {outputFile} ELSE tmpDir
         /\ created' = IF made THEN created \cup {outputFile} ELSE created
         /\ cryptPc' = IF returns THEN "read" ELSE "thrown"
    /\ UNCHANGED << cryptOp, fakeCalls, fakeIndex, fakeTemp, inputFile,
                    outputFile >>
    /\ UNCHANGED nonCryptVars

\* await readFileAsync(outputFile, 'utf-8'), then the two cleanups and the
\* return; a failing read ends in the catch that throws.
ReadAndCleanup ==
    /\ cryptPc = "read"
    /\ \E read \in BOOLEAN :
         IF read
         THEN /\ tmpDir' = CleanupTempFile(CleanupTempFile(tmpDir, inputFile),
                                           outputFile)
              /\ cryptPc' = "returned"
         ELSE /\ cryptPc' = "thrown"
              /\ UNCHANGED tmpDir
    /\ UNCHANGED << cryptOp, fakeCalls, fakeIndex, fakeTemp, inputFile,
                    outputFile, created >>
    /\ UNCHANGED nonCryptVars

NextCrypt ==
    \/ CreateFakeTemp
    \/ ExecFake
    \/ CleanupFake
    \/ CreateInput
    \/ ExecReal
    \/ ReadAndCleanup

SpecCrypt == InitCrypt /\ [][NextCrypt]_vars

\* ------------------------------------------- the vocabulary of the properties

\* A document's lines with the line-ending variants normalised: "\r\n",
\* "\n" and a lone "\r" each end a line.
RECURSIVE Normalise(_)
Normalise(s) ==
    IF Len(s) = 0 THEN << >>
    ELSE IF s[1] = "\r" /\ Len(s) >= 2 /\ s[2] = "\n"
         THEN << "\n" >> \o Normalise(SubStr(s, 3, Len(s)))
    ELSE IF s[1] = "\r" THEN << "\n" >> \o Normalise(Tail(s))
    ELSE << s[1] >> \o Normalise(Tail(s))

NormLines(s) == Split(Normalise(s), "\n")

\* A marker line holds the token once and nothing else but whitespace.
IsMarkerLine(line) ==
    /\ \A i \in 1..Len(line) : line[i] = CAR_MARKER \/ IsWs(line[i])
    /\ Cardinality({i \in 1..Len(line) : line[i] = CAR_MARKER}) = 1

\* The 1-based numbers of the marker lines of a document.
MarkerLineNumbers(s) ==
    {i \in 1..Len(NormLines(s)) : IsMarkerLine(NormLines(s)[i])}

NumMarkers(s) == Cardinality(MarkerLineNumbers(s))

\* The line of s around position p: from after the line terminator before
\* p to before the one after it.
RECURSIVE LineStart(_, _)
LineStart(s, p) ==
    IF p = 1 \/ IsLineTerminator(s[p - 1]) THEN p ELSE LineStart(s, p - 1)

RECURSIVE LineStop(_, _)
LineStop(s, p) ==
    IF p = Len(s) \/ IsLineTerminator(s[p + 1]) THEN p ELSE LineStop(s, p + 1)

LineAround(s, p) == SubStr(s, LineStart(s, p), LineStop(s, p))

Patched == pc = "patched"
PatchedReadable == Patched /\ file.readable
FlagsOff == ~config.randomizeOrder /\ ~config.addFakePatches

\* The text of the i-th match of the replace.
MatchText(i) == SubStr(file.content, calls[i].match.start, calls[i].match.stop)

\* A fragment with every non-blank line behind the given indentation.
RECURSIVE Indented(_, _)
Indented(lines, indent) ==
    IF Len(lines) = 0 THEN << >>
    ELSE << IF \E j \in 1..Len(lines[1]) : ~IsWs(lines[1][j])
            THEN indent \o lines[1] ELSE lines[1] >>
         \o Indented(Tail(lines), indent)

\* What the i-th match becomes when fragment frag replaces its marker line:
\* the whitespace the match took before the marker line, then the fragment
\* behind the marker line's own leading whitespace.
ReplacedBy(i, frag) ==
    LET m == calls[i].match
        ls == LineStart(file.content, m.tok)
    IN  SubStr(file.content, m.start, ls - 1)
        \o Join(Indented(Split(frag, "\n"), SubStr(file.content, ls, m.tok - 1)),
                "\n")

\* ------------------------------------------------------------- properties

\* The characters of a text that are not whitespace, in order.
NonWs(s) == SelectSeq(s, LAMBDA c : ~IsWs(c))

\* The i-th call of the replace left its match as it was.
LeftVerbatim(i) == ~calls[i].replaced /\ calls[i].returned = MatchText(i)

\* C1: with decoys and shuffling disabled, the i-th marker in ascending
\* line order is replaced by the i-th plan element whenever the plan has
\* one, and is left verbatim otherwise, for every fragment value, the empty
\* fragment included.
C1_IthMarkerGetsIthFragment ==
    (PatchedReadable /\ FlagsOff) =>
        /\ Len(calls) = NumMarkers(file.content)
        /\ \A i \in 1..Len(calls) :
             /\ i > 1 => calls[i - 1].match.tok < calls[i].match.tok
             /\ IF i <= Len(config.patches)
                THEN /\ calls[i].replaced
                     /\ calls[i].patch = i
                     /\ NonWs(calls[i].returned) = NonWs(config.patches[i])
                ELSE LeftVerbatim(i)

\* C1 holds of the plans that hold no empty fragment.
C1_WithoutEmptyFragments ==
    (\A i \in 1..Len(config.patches) : Truthy(config.patches[i]))
    => C1_IthMarkerGetsIthFragment

\* C2 (partial fill): with fewer fragments in the plan than markers and
\* addFakePatches off, every marker beyond the plan length is left verbatim
\* in patchedFile and patchesApplied equals the plan length.
C2_PartialFill ==
    (PatchedReadable /\ ~config.addFakePatches
       /\ Len(patches) < NumMarkers(file.content)) =>
        /\ result.patchesApplied = Len(patches)
        /\ \A i \in 1..Len(calls) : i > Len(patches) => LeftVerbatim(i)

\* C2 holds of the plans that hold no empty fragment.
C2_WithoutEmptyFragments ==
    (\A i \in 1..Len(patches) : Truthy(patches[i])) => C2_PartialFill

\* C3: for a document with zero markers and any PatchSpecification, the
\* outcome has patchesApplied = 0, the one error "No Car(); markers found in
\* file", and patchedFile equal to originalFile character for character.
C3_ZeroMarkers ==
    (PatchedReadable /\ NumMarkers(file.content) = 0) =>
        /\ result.patchesApplied = 0
        /\ result.errors = << << "No Car(); markers found in file" >> >>
        /\ result.originalFile = file.content
        /\ result.patchedFile = result.originalFile

\* A document of no marker that holds the token, patched with a fragment.
C3_Witness ==
    /\ PatchedReadable
    /\ NumMarkers(file.content) = 0
    /\ \E i \in 1..Len(file.content) : file.content[i] = CAR_MARKER
    /\ Len(config.patches) > 0
    /\ result.patchedFile = file.content

\* C4 (indentation): for every marker that is substituted, each non-blank
\* line of the inserted fragment starts with exactly the leading whitespace
\* of the marker line it replaces, which holds no line break, and blank
\* fragment lines are inserted unchanged.
C4_IndentationLaw ==
    PatchedReadable =>
        \A i \in 1..Len(calls) :
            calls[i].replaced =>
                calls[i].returned = ReplacedBy(i, patches[calls[i].patch])

\* C4 holds where the captured indentation holds no line break.
C4_WithoutLineBreakInIndent ==
    (\A i \in 1..Len(calls) :
        \A j \in 1..Len(calls[i].match.indent) :
            ~IsLineTerminator(calls[i].match.indent[j]))
    => C4_IndentationLaw

\* C5: a line is treated as a marker, by scanMarkers and by loadAndPatch,
\* only if its trimmed content is exactly the token: a line that holds the
\* token with any other non-whitespace content is never counted and never
\* substituted.
C5_OnlyLineExactMarkers ==
    /\ scan.state = "returned" =>
         /\ scan.count = Len(scan.locations)
         /\ \A k \in 1..Len(scan.locations) :
              /\ scan.locations[k] \in 1..Len(Split(file.content, "\n"))
              /\ IsMarkerLine(Split(file.content, "\n")[scan.locations[k]])
    /\ PatchedReadable =>
         /\ markerCount = Len(calls)
         /\ \A i \in 1..Len(calls) :
              /\ file.content[calls[i].match.tok] = CAR_MARKER
              /\ IsMarkerLine(LineAround(file.content, calls[i].match.tok))
         /\ \A p \in 1..Len(file.content) :
              (file.content[p] = CAR_MARKER
                 /\ ~IsMarkerLine(LineAround(file.content, p)))
              => \A i \in 1..Len(calls) :
                    ~(calls[i].match.start <= p /\ p <= calls[i].match.stop)

\* A document whose token shares its line with other content was scanned
\* and patched with a fragment at hand, and neither counted nor changed.
C5_Witness ==
    /\ PatchedReadable
    /\ scan.state = "returned"
    /\ \E p \in 1..Len(file.content) :
         /\ file.content[p] = CAR_MARKER
         /\ \E q \in 1..Len(file.content) :
              file.content[q] = "x" /\ LineStart(file.content, q) = LineStart(file.content, p)
    /\ Len(config.patches) > 0 /\ Truthy(config.patches[1])
    /\ scan.count = 0
    /\ result.patchedFile = file.content

\* C6: for a document with exactly k line-exact marker occurrences,
\* scanMarkers returns count = k and k strictly increasing 1-based line
\* numbers, each pointing at a marker line.
C6_ScanCountsMarkerLines ==
    scan.state = "returned" =>
        /\ scan.count = NumMarkers(file.content)
        /\ Len(scan.locations) = scan.count
        /\ \A k \in 1..Len(scan.locations) :
             /\ k > 1 => scan.locations[k - 1] < scan.locations[k]
             /\ scan.locations[k] \in MarkerLineNumbers(file.content)

\* C6 holds of the documents that hold no "\r".
C6_WithoutCarriageReturn ==
    (\A p \in 1..Len(file.content) : file.content[p] # "\r")
    => C6_ScanCountsMarkerLines

\* C6, repeated scans: a scan after a scan returns the same result.
C6_ScanIdempotent ==
    [][scan.state # "none" => scan' = scan]_vars

\* C7: with addFakePatches on, the number of decoys added to the plan is
\* the number of markers of the document being processed, never more and
\* never fewer; with it off no decoy is added.
C7_DecoyCount ==
    (PatchedReadable /\ NumMarkers(file.content) > 0) =>
        /\ Len(fakePatches) = IF config.addFakePatches
                              THEN NumMarkers(file.content) ELSE 0
        /\ Len(patches) = Len(config.patches) + Len(fakePatches)
        /\ markerCount = NumMarkers(file.content)

\* Two markers, one real fragment and two decoys in the plan.
C7_Witness ==
    /\ PatchedReadable
    /\ config.addFakePatches
    /\ NumMarkers(file.content) = 2
    /\ Len(config.patches) = 1
    /\ Len(fakePatches) = 2
    /\ Len(patches) = 3

\* C8: patchesApplied is the same with randomizeOrder on as with it off,
\* for every permutation the shuffle can produce: the shuffled plan fills
\* as many markers as the combined plan in its given order.
C8_ShuffleKeepsCount ==
    (PatchedReadable /\ NumMarkers(file.content) > 0 /\ config.randomizeOrder) =>
        result.patchesApplied
          = ApplyPatches(file.content, config.patches \o fakePatches).applied

\* C8 holds of the plans that hold no empty fragment.
C8_WithoutEmptyFragments ==
    (\A i \in 1..Len(patches) : Truthy(patches[i])) => C8_ShuffleKeepsCount

\* The outcome the Map holds for a path.
OutcomeOf(path) ==
    (CHOOSE e \in {results[i] : i \in 1..Len(results)} : e.key = path).value

\* The k-th path of the call has been through its pipeline and its outcome
\* is stored.
Stored(k) == k <= Len(durations)

\* runWithPatches evaluates the patched text of a file that was read and
\* holds a marker.
Evaluated(f) == f.readable /\ NumMarkers(f.content) > 0

\* An error entry carries a message.
Carries(error, message) == \E j \in 1..Len(error) : error[j] = message
HasError(outcome, message) ==
    \E j \in 1..Len(outcome.errors) : Carries(outcome.errors[j], message)

\* The evaluated text raises a fault nothing in it catches: in its
\* synchronous run, or in a callback it gave to a timer.
RaisesFault(program) ==
    program.ending = "throw" \/ "timeoutThrows" \in program.timers

\* The outcome of an evaluated text whose fault was recorded.
FaultRecorded(f, outcome) ==
    /\ HasError(outcome, ThrownMessage)
    /\ outcome.originalFile = f.content
    /\ outcome.patchedFile = ApplyPatches(f.content, config.patches).text
    /\ outcome.executionResult = Absent

\* C9: an uncaught fault raised by the evaluated text never propagates out
\* of runWithPatches or batchProcess and never crashes the host: it is
\* recorded as an error entry carrying the fault's message in that
\* document's outcome, which keeps the patched text and carries no
\* execution result.
C9_FaultsContained ==
    /\ host # "crashed"
    /\ \A k \in 1..Len(filePaths) :
         LET f == FileSystem(filePaths[k])
         IN  (Stored(k) /\ Evaluated(f) /\ RaisesFault(f.program))
             => FaultRecorded(f, OutcomeOf(filePaths[k]))

\* C9 holds of the faults raised in the synchronous run.
C9_SynchronousFaultsContained ==
    \A k \in 1..Len(filePaths) :
        LET f == FileSystem(filePaths[k])
        IN  (Stored(k) /\ Evaluated(f) /\ f.program.ending = "throw")
            => FaultRecorded(f, OutcomeOf(filePaths[k]))

\* C10: executing patched text that never terminates, under the timeout
\* bound the caller chose, ends once that bound has elapsed: the run fails
\* with a timeout failure recorded in the outcome, no partial execution
\* result is returned, and nothing started by the evaluated text keeps
\* running after the failure is reported.
C10_TimeoutBound ==
    /\ pc = "running" => elapsed < timeoutMs + TickMs
    /\ \A k \in 1..Len(filePaths) :
         LET f == FileSystem(filePaths[k])
         IN  (Stored(k) /\ Evaluated(f) /\ f.program.ending = "loop") =>
                /\ durations[k] < timeoutMs + TickMs
                /\ HasError(OutcomeOf(filePaths[k]), TimedOutMessage)
                /\ OutcomeOf(filePaths[k]).executionResult = Absent
                /\ \A t \in timers : t.owner # k

\* C10 holds of the bound of 5000 ms the code sets, the timers apart.
C10_VmTimeoutRecorded ==
    /\ pc = "running" => elapsed < VmTimeoutMs + TickMs
    /\ \A k \in 1..Len(filePaths) :
         LET f == FileSystem(filePaths[k])
         IN  (Stored(k) /\ Evaluated(f) /\ f.program.ending = "loop") =>
                /\ durations[k] >= VmTimeoutMs
                /\ durations[k] < VmTimeoutMs + TickMs
                /\ HasError(OutcomeOf(filePaths[k]), TimedOutMessage)
                /\ OutcomeOf(filePaths[k]).executionResult = Absent

\* executePatched has made a context object.
SandboxMade == sandbox # NoSandbox

\* The members of a process accessor that only give information.
InfoMembers == {"env", "cwd"}

\* C11: with only the default capability set, the evaluated text has no
\* operation that terminates the host process: the process accessor of the
\* context object is restricted to reading information, so after any
\* execution the host is still running and returns an outcome.
C11_DefaultCapabilitiesHarmless ==
    (DOMAIN context = {}) =>
        /\ \A h \in reached :
             h.name = "process" => h.members \subseteq InfoMembers
        /\ host = "running"
        /\ \A k \in 1..Len(filePaths) : k < idx => Stored(k)

\* The handles the context object binds.
Bound == {sandbox[n] : n \in DOMAIN sandbox}

\* C12: the capability names visible to the evaluated text are exactly the
\* default names united with the names the caller supplied; a caller's name
\* that equals a default name binds to the caller's handle, and no other
\* host handle is reachable.
C12_ExactlyTheCapabilitySet ==
    SandboxMade =>
        /\ DOMAIN sandbox = DefaultNames \cup DOMAIN context
        /\ \A n \in DOMAIN context : sandbox[n] = context[n]
        /\ reached \subseteq Bound

\* C12 holds of the names and of the caller's handles replacing defaults.
C12_NamesAndShadowing ==
    SandboxMade =>
        /\ DOMAIN sandbox = DefaultNames \cup DOMAIN context
        /\ \A n \in DOMAIN context : sandbox[n] = context[n]
        /\ \A n \in DefaultNames \ DOMAIN context : sandbox[n].owner # "caller"

\* What runWithPatches leaves of an outcome when the host ends before it
\* returns.
NeverReturned == [PatchResult(<< >>, << >>, 0, << >>)
                    EXCEPT !.executionResult = "(never returned)"]

\* The outcome of runWithPatches called on a path alone, with the
\* configuration and the context of the call at hand (both flags off: one
\* plan).
AloneOutcome(path) ==
    LET f == FileSystem(path)
        loaded == (CHOOSE run \in LoadAndPatchRuns(f, config, hexRange) : TRUE).result
        failed(message) ==
            [loaded EXCEPT !.errors = @ \o << << "Execution error: ",
                                              "Execution failed: ", message >> >>]
        hasExit == "process" \notin DOMAIN context
    IN  IF Len(loaded.errors) > 0 THEN loaded
        ELSE CASE f.program.ending = "return" ->
                    [loaded EXCEPT !.executionResult = "value"]
               [] f.program.ending = "throw" -> failed("boom")
               [] f.program.ending = "loop" ->
                    failed("Script execution timed out after 5000ms")
               [] f.program.ending = "exit" /\ ~hasExit ->
                    failed("process.exit is not a function")
               [] OTHER -> NeverReturned

\* The pipeline of a path fails at one of its stages: the load, the scan
\* that finds no marker, the execution by a fault or by its timeout.
FailsAtAStage(path) ==
    LET f == FileSystem(path)
    IN  \/ ~f.readable
        \/ NumMarkers(f.content) = 0
        \/ RaisesFault(f.program)
        \/ f.program.ending = "loop"

BatchOver == entry = "batchProcess" /\ pc \in {"returned", "dead"}

\* The evaluated text of a path calls the host's exit.
CallsExit(path) ==
    LET f == FileSystem(path)
    IN  Evaluated(f) /\ AloneOutcome(path) = NeverReturned

\* C13: in batchProcess, a failure of one identity at any stage (load
\* failure, zero markers, execution fault or timeout) is recorded only in
\* that identity's outcome; every other identity of the batch is still
\* processed to completion and its outcome is the one it has without the
\* failing identity.
C13_BatchIsolation ==
    (BatchOver /\ \A k \in 1..Len(filePaths) : ~CallsExit(filePaths[k])) =>
        \A j \in 1..Len(filePaths) :
            FailsAtAStage(filePaths[j]) =>
                \A k \in 1..Len(filePaths) :
                    filePaths[k] # filePaths[j] =>
                        /\ Stored(k)
                        /\ OutcomeOf(filePaths[k]) = AloneOutcome(filePaths[k])

\* C13 holds of the batches no text of which raises a fault in a timer
\* callback.
C13_WithoutTimerFault ==
    (\A k \in 1..Len(filePaths) :
        "timeoutThrows" \notin FileSystem(filePaths[k]).program.timers)
    => C13_BatchIsolation

\* The keys of the Map.
Keys == {results[i].key : i \in 1..Len(results)}

\* C14: for every list of n identities passed to batchProcess, the
\* returned mapping has n entries, one keyed by each identity of the list,
\* whatever subset of the entries failed.
C14_OneEntryPerIdentity ==
    (entry = "batchProcess" /\ pc = "returned") =>
        /\ Len(results) = Len(filePaths)
        /\ Keys = {filePaths[k] : k \in 1..Len(filePaths)}

\* C14 holds of the lists that repeat no identity.
C14_DistinctIdentities ==
    (\A j, k \in 1..Len(filePaths) : filePaths[j] = filePaths[k] => j = k)
    => C14_OneEntryPerIdentity

\* The fields of an outcome that loadAndPatch fills and the error list.
Content(outcome) ==
    << outcome.originalFile, outcome.patchedFile, outcome.patchesApplied,
       outcome.errors >>

C16_RetrievalFailureNeverRaised ==
    ~file.readable =>
        /\ scan.state # "thrown"
        /\ scan.state = "returned" => Carries(scan.error, file.error)
        /\ Patched => HasError(result, file.error)

\* C16 holds of loadAndPatch, through which runWithPatches and
\* batchProcess read the document.
C16_LoadFailureRecorded ==
    (Patched /\ ~file.readable) =>
        /\ HasError(result, file.error)
        /\ HasError(result, "Failed to load file: ")

\* The last pipeline to end was the one of a document that cannot be read.
EndedUnreadable == idx > 1 /\ pc \in {"load", "returned", "dead"} /\ ~file.readable

\* C17: when the document cannot be read, the pipeline for that identity
\* halts at Loaded: the outcome has exactly one error entry describing the
\* load failure, patchesApplied = 0, empty original and patched text, and
\* no planning, substitution or execution is performed for it.
C17_LoadFailureHaltsAtLoaded ==
    /\ \A k \in 1..Len(filePaths) :
         (Stored(k) /\ ~FileSystem(filePaths[k]).readable) =>
            /\ OutcomeOf(filePaths[k]) =
                 [originalFile |-> << >>, patchedFile |-> << >>,
                  patchesApplied |-> 0,
                  errors |-> << << "Failed to load file: ",
                                   FileSystem(filePaths[k]).error >> >>,
                  executionResult |-> Absent]
            /\ durations[k] = 0
    /\ EndedUnreadable =>
         /\ stages = << "Loaded", "Failed" >>
         /\ markerCount = 0
         /\ fakePatches = << >> /\ patches = << >> /\ calls = << >>
         /\ \A t \in timers : t.owner # idx - 1

\* A batch whose first document cannot be read has gone on to its second,
\* with a fragment at hand and nothing planned or run for the first.
C17_Witness ==
    /\ entry = "batchProcess"
    /\ Len(filePaths) = 2
    /\ filePaths[1] = "missing.ts"
    /\ Len(config.patches) = 1
    /\ EndedUnreadable
    /\ pc = "load"
    /\ Stored(1)
    /\ OutcomeOf("missing.ts").patchesApplied = 0
    /\ stages = << "Loaded", "Failed" >>

\* C18 (decoy freshness): for every n > 0, two separate calls of
\* generateFakePatches(n) never return the same sequence of fragments,
\* whichever templates the draws select.
C18_DecoyFreshness ==
    (decoyCount > 0 /\ Len(decoys) = 2) => decoys[1] # decoys[2]

\* A fragment carries a token drawn at random.
HasToken(fragment) ==
    \E j \in 1..Len(fragment) : fragment[j] \in FreshHex(1) \cup FreshHex(2)

\* C18 holds of the calls whose fragments all carry a drawn token.
C18_FreshWhereTokensAreDrawn ==
    (Len(decoys) = 2
       /\ \A c \in 1..2 : \A j \in 1..Len(decoys[c]) : HasToken(decoys[c][j]))
    => C18_DecoyFreshness

\* The stages of a pipeline in their order, and its terminal states.
Pipeline == << "Loaded", "Scanned", "Planned", "Patched" >>
Terminals == {"Executed", "Failed"}

IsPrefix(a, b) == Len(a) <= Len(b) /\ SubStr(b, 1, Len(a)) = a

\* Stages passed in the order of the pipeline, each once, a terminal state
\* only at the end.
InOrder(passed) ==
    LET n == Len(passed)
        ended == n > 0 /\ passed[n] \in Terminals
    IN  IsPrefix(IF ended THEN SubStr(passed, 1, n - 1) ELSE passed, Pipeline)

\* The pipeline at hand is over: its outcome was returned, or the host
\* ended under it.
PipelineOver == Len(stages) > 0 /\ pc \in {"load", "returned", "dead"}

\* C19: every pipeline run of runWithPatches moves through Loaded, Scanned,
\* Planned, Patched in that order, each stage at most once with no retry
\* and no return to an earlier stage, and ends in exactly one of two
\* terminal states: Executed (an execution result and an empty error list)
\* or Failed (a non-empty error list and no execution result).
C19_LinearPipeline ==
    /\ InOrder(stages)
    /\ PipelineOver =>
         /\ stages[Len(stages)] \in Terminals
         /\ stages[Len(stages)] = "Executed" =>
              result.executionResult # Absent /\ result.errors = << >>
         /\ stages[Len(stages)] = "Failed" =>
              result.executionResult = Absent /\ Len(result.errors) > 0

\* C19 holds of the pipelines under which the host does not exit.
C19_WhereTheHostDoesNotExit ==
    host # "exited" => C19_LinearPipeline

\* C19, no retry and no way back: a step adds stages to the ones passed, or
\* starts the pipeline of the next path after a terminal state.
C19_NoWayBack ==
    [][\/ IsPrefix(stages, stages')
       \/ /\ Len(stages) > 0 /\ stages[Len(stages)] \in Terminals
          /\ Len(stages') > 0 /\ stages'[1] = "Loaded"]_vars

\* The call of Carmilla has returned or thrown.
CryptOver == cryptPc \in {"returned", "thrown"}

\* C20: after any call of Carmilla.encrypt or Carmilla.decrypt has returned
\* or thrown, every temporary file that call created (fake-call inputs,
\* real input file, output file) has been deleted, on the success path and
\* on every failure path.
C20_TempFilesDeleted ==
    CryptOver => created \cap tmpDir = {}

\* C20 holds of the real input and output files of a call that returns.
C20_ReturnDeletesRealFiles ==
    cryptPc = "returned" =>
        /\ {inputFile, outputFile} \subseteq created
        /\ {inputFile, outputFile} \cap tmpDir = {}

\* The batch goes through its paths one at a time.
InBatch == entry = "batchProcess" /\ pc # "call"

NonDecreasing(seq) == \A a, b \in 1..Len(seq) : a < b => seq[a] <= seq[b]

\* C21: in batchProcess the pipeline of identity k+1 starts only after the
\* outcome of identity k has been stored, and the lines the evaluated texts
\* write to the one console come in input order.
C21_WritesInInputOrder ==
    InBatch =>
        /\ \A k \in 1..Len(evals) : \A j \in 1..(evals[k] - 1) : Stored(j)
        /\ NonDecreasing(output)

\* The loop of batchProcess itself is sequential: a pipeline starts, and its
\* text is evaluated, only after the outcomes before it have been stored,
\* and what the texts write while they run comes in input order.
C21_PipelinesInSequence ==
    InBatch =>
        /\ \A k \in 1..idx - 1 : Stored(k)
        /\ NonDecreasing(evals)
        /\ pc \in {"exec", "running"} => Len(durations) = idx - 1
        /\ (\A t \in timers : ~t.fired) => NonDecreasing(output)

\* C22: the pipelines of one batch share no mutable state: nothing that one
\* identity's pipeline or evaluated text writes is observed by the pipeline
\* or the evaluated text of another identity of the batch.
C22_NoSharedMutableState ==
    InBatch => \A s \in seen : s.reader = s.writer

\* The marker count, the plan and the patched text of a pipeline are its
\* own: those of its document and of the configuration, whatever the
\* identities before it did.
C22_PlanAndMarkersOwned ==
    InBatch /\ pc \in {"exec", "running"} =>
        /\ markerCount = NumMarkers(file.content)
        /\ patches = config.patches
        /\ result.patchedFile = ApplyPatches(file.content, config.patches).text

\* Two fragments are instances of one template of generateFakePatches.
SameTemplate(a, b) == a[1] = b[1]

\* The pairs of draws of one call that picked one token-bearing template.
SameTemplateDraws ==
    { << c, i, j >> \in (1..Len(decoys)) \X (1..MaxDecoys) \X (1..MaxDecoys) :
        /\ i < j /\ j <= Len(decoys[c])
        /\ HasToken(decoys[c][i])
        /\ SameTemplate(decoys[c][i], decoys[c][j]) }

\* C23: within one generateFakePatches call every draw instantiates its
\* template with freshly drawn tokens, so that two draws of one
\* token-bearing template are no copies of one instantiation (two fresh
\* draws being taken never to give one value).
C23_DrawsCarryFreshTokens ==
    \A p \in SameTemplateDraws : decoys[p[1]][p[2]] # decoys[p[1]][p[3]]

\* What the code does instead: two draws of one template in one call are
\* always copies of its one instantiation, whatever the random values.
C23_DrawsAreCopies ==
    \A p \in SameTemplateDraws : decoys[p[1]][p[2]] = decoys[p[1]][p[3]]

\* loadAndPatch has substituted a plan with decoys, in its given order.
DecoysInGivenOrder ==
    /\ PatchedReadable
    /\ NumMarkers(file.content) > 0
    /\ config.addFakePatches
    /\ ~config.randomizeOrder

\* The i-th call of the replace callback substituted a decoy.
GotDecoy(i) == calls[i].replaced /\ calls[i].patch > Len(config.patches)

\* C24: with addFakePatches on and randomizeOrder off, the plan is the real
\* fragments in their given order followed by the decoys: the markers
\* receive the real fragments first, and a decoy is substituted at a marker
\* only when all real fragments have been consumed by earlier markers.
C24_RealFragmentsFirst ==
    DecoysInGivenOrder =>
        /\ patches = config.patches \o fakePatches
        /\ \A i \in 1..Len(calls) :
             /\ i <= Len(config.patches) =>
                    calls[i].replaced /\ calls[i].patch = i
             /\ GotDecoy(i) =>
                    \A r \in 1..Len(config.patches) :
                        \E j \in 1..(i - 1) :
                            calls[j].replaced /\ calls[j].patch = r

\* C24 holds of the plans that hold no empty fragment.
C24_WithoutEmptyFragments ==
    (\A i \in 1..Len(config.patches) : Truthy(config.patches[i]))
    => C24_RealFragmentsFirst

\* The 1-based number of the line the p-th character of s stands on, a line
\* ending at "\r\n", at "\n" or at a "\r" no "\n" follows.
EndsLine(s, q) ==
    \/ s[q] = "\n"
    \/ s[q] = "\r" /\ (q = Len(s) \/ s[q + 1] # "\n")

LineOf(s, p) == 1 + Cardinality({q \in 1..(p - 1) : EndsLine(s, q)})

\* The marker sites loadAndPatch recognises, by the lines of their tokens.
SiteLines(s) == [i \in 1..Len(CAR_REGEX(s)) |-> LineOf(s, CAR_REGEX(s)[i].tok)]

\* C25: for every document content, lines ending in \r\n or in a lone \r
\* included, the count and the line positions scanMarkers reports agree
\* with the marker sites loadAndPatch recognises for decoy counting and
\* substitution.
C25_ScanAgreesWithPatch ==
    (PatchedReadable /\ scan.state = "returned") =>
        /\ scan.count = markerCount
        /\ scan.count = Len(CAR_REGEX(file.content))
        /\ scan.locations = SiteLines(file.content)

\* C25 holds of the documents whose every "\r" is followed by "\n".
C25_WithoutLoneCarriageReturn ==
    (\A p \in 1..Len(file.content) :
        file.content[p] = "\r" =>
            p < Len(file.content) /\ file.content[p + 1] = "\n")
    => C25_ScanAgreesWithPatch

\* The lines of patched text p from the q-th on are the lines of the
\* original from the l-th on, every line that is no substituted marker
\* line unchanged and in its place, and the i-th marker line, where call i
\* substituted it, replaced by as many lines as its fragment has.
RECURSIVE OnlyMarkerLinesChanged(_, _, _, _, _)
OnlyMarkerLinesChanged(orig, l, p, q, i) ==
    IF l > Len(orig) THEN q = Len(p) + 1
    ELSE IF IsMarkerLine(orig[l]) /\ i <= Len(calls) /\ calls[i].replaced
    THEN OnlyMarkerLinesChanged(orig, l + 1, p,
             q + Len(NormLines(patches[calls[i].patch])), i + 1)
    ELSE /\ q <= Len(p)
         /\ p[q] = orig[l]
         /\ OnlyMarkerLinesChanged(orig, l + 1, p, q + 1,
                IF IsMarkerLine(orig[l]) THEN i + 1 ELSE i)

\* C26: loadAndPatch changes marker lines only: every line that is no
\* marker, blank lines and the line breaks next to a marker line included,
\* is in patchedFile unchanged and in the same order, so that the patched
\* text has the original's lines, less the substituted markers, plus the
\* lines of the inserted fragments.
C26_OnlyMarkerLinesChange ==
    (PatchedReadable /\ NumMarkers(file.content) > 0) =>
        OnlyMarkerLinesChanged(NormLines(file.content), 1,
                               NormLines(result.patchedFile), 1, 1)

\* C26 holds where no match of the regular expression takes a line break
\* with the marker line.
C26_WhereMatchesKeepToTheLine ==
    (\A i \in 1..Len(calls) :
        \A j \in 1..Len(MatchText(i)) : ~IsLineTerminator(MatchText(i)[j]))
    => C26_OnlyMarkerLinesChange

\* The calls of the replace callback that substituted a real fragment, one
\* that is no decoy of the plan.
RealSubstitutions ==
    { i \in 1..Len(calls) :
        /\ calls[i].replaced
        /\ \A k \in 1..Len(fakePatches) :
             patches[calls[i].patch] # fakePatches[k] }

\* C27: when the real fragments are at most as many as the markers, every
\* real fragment the caller supplied is substituted at some marker, for
\* every setting of addFakePatches and randomizeOrder and every outcome of
\* the shuffle: a decoy never takes the place of a real fragment.  (Stated
\* of the real fragments that are not empty, an empty one being
\* substituted nowhere under any setting.)
C27_RealFragmentsAllSubstituted ==
    (/\ PatchedReadable
     /\ NumMarkers(file.content) > 0
     /\ Len(config.patches) <= NumMarkers(file.content)
     /\ \A i \in 1..Len(config.patches) : Truthy(config.patches[i])) =>
        Cardinality(RealSubstitutions) = Len(config.patches)

\* C27 holds where decoys are not shuffled among the real fragments.
C27_WithoutShuffledDecoys ==
    ~(config.addFakePatches /\ config.randomizeOrder)
    => C27_RealFragmentsAllSubstituted

\* How many times the text of the k-th identity was evaluated.
Evaluations(k) == Len(SelectSeq(evals, LAMBDA e : e = k))

\* loadAndPatch returns an empty error list on the file.
LoadsClean(f) ==
    \A run \in LoadAndPatchRuns(f, config, hexRange) : run.result.errors = << >>

\* C28: runWithPatches evaluates the patched text if and only if
\* loadAndPatch returned an empty error list: a document that failed to
\* load or has zero markers is never evaluated, and a document with at
\* least one marker is evaluated exactly once by the time its outcome is
\* returned, also when no fragment was substituted.
C28_EvaluatedIffNoLoadErrors ==
    \A k \in 1..Len(filePaths) :
        LET f == FileSystem(filePaths[k])
        IN  /\ Evaluations(k) <= 1
            /\ Evaluations(k) = 1 => LoadsClean(f) /\ Evaluated(f)
            /\ ~f.readable \/ NumMarkers(f.content) = 0 => Evaluations(k) = 0
            /\ Stored(k) /\ LoadsClean(f) => Evaluations(k) = 1
            /\ Stored(k) /\ NumMarkers(f.content) > 0 => Evaluations(k) = 1

\* A batch of a file that cannot be read and a file of one marker, no
\* fragment given: the first was not evaluated, the second was, once, with
\* nothing substituted.
C28_Witness ==
    /\ pc = "returned"
    /\ filePaths = << "missing.ts", "value.ts" >>
    /\ config.patches = << >>
    /\ Stored(1) /\ Stored(2)
    /\ evals = << 2 >>
    /\ result.patchesApplied = 0
    /\ result.patchedFile = result.originalFile
    /\ result.executionResult = "value"

\* The identifiers a decoy fragment declares with const.
Declared(fragment) ==
    IF fragment[1] = "const fakeVar" THEN {<< "fakeVar", fragment[2] >>}
    ELSE IF fragment[1] = "const fakeObj = { id: " THEN {<< "fakeObj" >>}
    ELSE {}

\* The decoys the replace callback substituted, in the order of their
\* markers.
SubstitutedDecoys ==
    LET at == SelectSeq([i \in 1..Len(calls) |-> i], GotDecoy)
    IN  [k \in 1..Len(at) |-> patches[calls[at[k]].patch]]

NoNameTwice(fragments) ==
    \A i, j \in 1..Len(fragments) :
        i < j => Declared(fragments[i]) \cap Declared(fragments[j]) = {}

\* C29: no two decoy fragments of one plan declare the same identifier, so
\* that the decoys substituted at the markers of one text never give it a
\* duplicate declaration.
C29_DecoysDeclareDistinctNames ==
    PatchedReadable =>
        /\ NoNameTwice(fakePatches)
        /\ NoNameTwice(SubstitutedDecoys)

\* C29 holds of the plans whose decoys are instances of different
\* templates.
C29_WhereTemplatesDiffer ==
    (\A i, j \in 1..Len(fakePatches) :
        i < j => ~SameTemplate(fakePatches[i], fakePatches[j]))
    => C29_DecoysDeclareDistinctNames

\* POST /patch/batch has answered.
Responded == response.status = 200

\* C30: for every /patch/batch request the summary of the response
\* satisfies total = successful + failed, and total is the number of
\* entries of results, for every list of file paths, those that repeat a
\* path included.
C30_SummaryCountsEntries ==
    Responded =>
        /\ response.total = response.successful + response.failed
        /\ response.total = Len(response.results)

\* C30 holds of the requests whose paths are all different; and successful
\* and failed always count the entries of results between them.
C30_DistinctPaths ==
    Responded =>
        /\ response.successful + response.failed = Len(response.results)
        /\ (\A i, j \in 1..Len(filePaths) :
               i # j => filePaths[i] # filePaths[j])
           => C30_SummaryCountsEntries

=============================================================================
